---- MODULE Spec2Model ----
(***************************************************************************)
(* The sabre command-line pipeline (sabre.js): argument validation, version *)
(* resolution, compiler provisioning, import resolution, compilation,       *)
(* request building, analysis submission and report output, as one          *)
(* single-threaded state machine driven by the outcomes of its              *)
(* collaborators (lib/compiler, lib/client, lib/report, lib/releases,       *)
(* truffle's Profiler, the file system).                                    *)
(***************************************************************************)
EXTENDS Integers, Sequences, FiniteSets, TLC

VARIABLES
    pc,             \* position of the single thread of control
    argv,           \* the command line as given (process.argv.slice(2))
    env,            \* process.env: MYTHX_ETH_ADDRESS, MYTHX_PASSWORD
    fileReadable,   \* whether fs.readFileSync succeeds on the input file
    pragma,         \* the version pragma of the input file, or NoPragma
    args,           \* minimist's result
    ethAddress,     \* let ethAddress
    password,       \* let password
    version,        \* const version
    cbSync,         \* the loadSolcVersion callback runs inside the try block
    sourceList,     \* const sourceList
    allSources,     \* const allSources, an insertion-ordered object
    input,          \* const input
    compiledData,   \* let compiledData
    data,           \* const data, the analysis request
    submission,     \* the arguments client.getMythXReport was called with
    result,         \* the value client.getMythXReport resolved with
    uniqueIssues,   \* const uniqueIssues
    resolved,       \* what Profiler.resolveAllSources resolved with
    client,         \* lib/client: state of the pending getMythXReport call
    formatted,      \* the formatter applications: format and issue list
    solcSpinner,    \* state of solcSpinner
    analysisSpinner,\* state of analysisSpinner
    out,            \* what the user has been shown, in order
    exitCode,       \* the process's exit code, NoExit while it runs
    calls,          \* the pipeline stages invoked so far, in order
    failed,         \* the stage whose call threw or rejected, "none" if none
    timedOut        \* client.getMythXReport ended because the deadline elapsed

vars == <<pc, argv, env, fileReadable, pragma, args, ethAddress, password,
          version, cbSync, sourceList, allSources, input, compiledData, data,
          submission, result, uniqueIssues, resolved, client, formatted, solcSpinner, analysisSpinner, out,
          exitCode, calls, failed, timedOut>>

\* ------------------------------------------------------------------ bounds

\* most raw issues in a response
MaxIssues == 2
\* most retries of a status check after a network fault
MaxRetries == 1

\* ------------------------------------------------------------------ values

Undefined == "undefined"
Omitted == "omitted"
NoPragma == "none"
NoExit == "running"
NoData == [undefined |-> TRUE]
ClientIdle ==
    [state |-> "idle", elapsed |-> 0, retries |-> 0, checked |-> FALSE,
     outcome |-> "none"]

EntryFile == "C.sol"
ImportFiles == {"A.sol", "B.sol"}

ModeInputs == {Omitted, "full", "fast", ""}
FormatInputs == {Omitted, "json", "xml"}
EnvValues == {Undefined, "", "user"}
Pragmas == {NoPragma, "0.5.0", "0.4.99"}

TrialAddress == "0x0000000000000000000000000000000000000000"
TrialPassword == "trial"

Error(name, message) == [name |-> name, message |-> message]

\* String(err), what console.log(chalk.red(err)) shows of an Error
ErrToString(err) == <<err.name, ": ">> \o err.message

Log(text) == [stream |-> "console", how |-> "log", text |-> text]
Stderr(text) == [stream |-> "stderr", how |-> "uncaught", text |-> text]
Spin(name, how, text) == [stream |-> name, how |-> how, text |-> text]

\* JavaScript truthiness of an environment value
Truthy(v) == v # Undefined /\ v # ""

\* ------------------------------------------------------------------ Init

Init ==
    /\ pc = "start"
    /\ argv \in [mode : ModeInputs, format : FormatInputs,
                 version : BOOLEAN, help : BOOLEAN, debug : BOOLEAN,
                 positional : {<<>>, <<EntryFile>>}]
    /\ env \in [MYTHX_ETH_ADDRESS : EnvValues, MYTHX_PASSWORD : EnvValues]
    /\ fileReadable \in BOOLEAN
    /\ pragma \in Pragmas
    /\ args = NoData
    /\ ethAddress = Undefined
    /\ password = Undefined
    /\ version = Undefined
    /\ cbSync = FALSE
    /\ sourceList = <<>>
    /\ allSources = <<>>
    /\ input = NoData
    /\ compiledData = NoData
    /\ data = NoData
    /\ submission = NoData
    /\ result = NoData
    /\ uniqueIssues = <<>>
    /\ resolved = <<>>
    /\ client = ClientIdle
    /\ formatted = <<>>
    /\ solcSpinner = "none"
    /\ analysisSpinner = "none"
    /\ out = <<>>
    /\ exitCode = NoExit
    /\ calls = <<>>
    /\ failed = "none"
    /\ timedOut = FALSE

\* ------------------------------------------------------------------ argument handling

\* minimist with default: { mode: 'quick', format: 'text' }
Minimist(a) ==
    [mode |-> IF a.mode = Omitted THEN "quick" ELSE a.mode,
     format |-> IF a.format = Omitted THEN "text" ELSE a.format,
     version |-> a.version, help |-> a.help, debug |-> a.debug,
     positional |-> a.positional]

ParseArgs ==
    /\ pc = "start"
    /\ args' = Minimist(argv)
    /\ ethAddress' = env.MYTHX_ETH_ADDRESS
    /\ password' = env.MYTHX_PASSWORD
    /\ pc' = "flags"
    /\ UNCHANGED <<argv, env, fileReadable, pragma, version, cbSync,
                   sourceList, allSources, input, compiledData, data,
                   submission, result, uniqueIssues, resolved, client, formatted, solcSpinner,
                   analysisSpinner, out, exitCode, calls, failed, timedOut>>

\* process.exit(code) after console.log(text)
ExitWith(text, code) ==
    /\ out' = Append(out, Log(text))
    /\ exitCode' = code
    /\ pc' = "exited"

Pipeline == <<version, cbSync, sourceList, allSources, input, compiledData,
              data, submission, result, uniqueIssues, resolved, client, formatted, solcSpinner,
              analysisSpinner, calls, timedOut>>

Inputs == <<argv, env, fileReadable, pragma, args>>

PrintVersion ==
    /\ pc = "flags"
    /\ args.version
    /\ ExitWith(<<"package.json version">>, 0)
    /\ UNCHANGED <<Inputs, Pipeline, ethAddress, password, failed>>

PrintHelp ==
    /\ pc = "flags"
    /\ ~args.version
    /\ Len(args.positional) = 0 \/ args.help
    /\ ExitWith(<<"helpText">>, 0)
    /\ UNCHANGED <<Inputs, Pipeline, ethAddress, password, failed>>

ModeAccepted_Any(mode) == TRUE

ModeAccepted(mode) == mode \in {"quick", "full"}

FormatAccepted(format) ==
    format \in {"stylish", "compact", "table", "html", "json", "text"}

PastFlags == pc = "flags" /\ ~args.version /\ ~(Len(args.positional) = 0 \/ args.help)

RejectMode ==
    /\ PastFlags
    /\ ~ModeAccepted(args.mode)
    /\ ExitWith(<<"Invalid analysis mode. Please use either \"quick\" or \"full\".">>, -1)
    /\ failed' = "arguments"
    /\ UNCHANGED <<Inputs, Pipeline, ethAddress, password>>

RejectFormat ==
    /\ PastFlags
    /\ ModeAccepted(args.mode)
    /\ ~FormatAccepted(args.format)
    /\ ExitWith(<<"Invalid output format. Please use \"stylish\", \"compact\", \"table\", \"html\" or \"json\".">>, -1)
    /\ failed' = "arguments"
    /\ UNCHANGED <<Inputs, Pipeline, ethAddress, password>>


AcceptArgs_FillMissing ==
    /\ PastFlags
    /\ ModeAccepted(args.mode)
    /\ FormatAccepted(args.format)
    /\ ethAddress' = IF Truthy(ethAddress) THEN ethAddress ELSE TrialAddress
    /\ password' = IF Truthy(password) THEN password ELSE TrialPassword
    /\ pc' = "readFile"
    /\ UNCHANGED <<Inputs, Pipeline, out, exitCode, failed>>

\* the trial identity replaces the pair unless both are truthy
AcceptArgs ==
    /\ PastFlags
    /\ ModeAccepted(args.mode)
    /\ FormatAccepted(args.format)
    /\ IF ~(Truthy(ethAddress) /\ Truthy(password))
       THEN ethAddress' = TrialAddress /\ password' = TrialPassword
       ELSE UNCHANGED <<ethAddress, password>>
    /\ pc' = "readFile"
    /\ UNCHANGED <<Inputs, Pipeline, out, exitCode, failed>>

ReadFileFail ==
    /\ pc = "readFile"
    /\ ~fileReadable
    /\ ExitWith(<<"Error opening input file ", "ENOENT">>, -1)
    /\ failed' = "input"
    /\ UNCHANGED <<Inputs, Pipeline, ethAddress, password>>

ReadFileOk ==
    /\ pc = "readFile"
    /\ fileReadable
    /\ pc' = "getVersion"
    /\ UNCHANGED <<Inputs, Pipeline, ethAddress, password, out, exitCode, failed>>


\* ------------------------------------------------------------------ version resolution

\* compiler.getSolidityVersion: the declared version, or NoVersionDeclared
VersionDeclared(p) == p # NoPragma

\* lib/releases: the known release index
Releases == [v \in {"0.5.0"} |-> "v0.5.0+commit.1d4f565a"]

\* releases[version]
ReleaseOf(v) == IF v \in DOMAIN Releases THEN Releases[v] ELSE Undefined

\* an exception nothing catches: node prints it and exits with code 1
Uncaught(err) ==
    /\ out' = Append(out, Stderr(ErrToString(err)))
    /\ exitCode' = 1
    /\ pc' = "exited"

\* an exception escaping a callback that runs after the main script ended:
\* uncaught, or swallowed by the caller's promise, which leaves the run waiting
EscapesCallback(err) ==
    \/ Uncaught(err)
    \/ /\ pc' = "stalled"
       /\ UNCHANGED <<out, exitCode>>

GetSolidityVersionThrow_Continue ==
    /\ pc = "getVersion"
    /\ ~VersionDeclared(pragma)
    /\ calls' = Append(calls, "getSolidityVersion")
    /\ failed' = "version"
    /\ solcSpinner' = "spinning"
    /\ pc' = "loadSolc"
    /\ UNCHANGED <<Inputs, ethAddress, password, version, cbSync, sourceList,
                   allSources, input, compiledData, data, submission, result,
                   uniqueIssues, resolved, client, formatted, analysisSpinner, timedOut, out, exitCode>>

\* line 96 is outside every try block
GetSolidityVersionThrow ==
    /\ pc = "getVersion"
    /\ ~VersionDeclared(pragma)
    /\ calls' = Append(calls, "getSolidityVersion")
    /\ failed' = "version"
    /\ Uncaught(Error("NoVersionDeclared", <<"no version pragma in ", EntryFile>>))
    /\ UNCHANGED <<Inputs, ethAddress, password, version, cbSync, sourceList,
                   allSources, input, compiledData, data, submission, result,
                   uniqueIssues, resolved, client, formatted, solcSpinner, analysisSpinner, timedOut>>

GetSolidityVersionReturn ==
    /\ pc = "getVersion"
    /\ VersionDeclared(pragma)
    /\ version' = pragma
    /\ calls' = Append(calls, "getSolidityVersion")
    /\ solcSpinner' = "spinning"
    /\ pc' = "loadSolc"
    /\ UNCHANGED <<Inputs, ethAddress, password, cbSync, sourceList,
                   allSources, input, compiledData, data, submission, result,
                   uniqueIssues, resolved, client, formatted, analysisSpinner, timedOut, out, exitCode,
                   failed>>

\* ------------------------------------------------------------------ provisioning

CompilationFailedText == <<"Compilation with solc v", version, " failed">>

\* the catch block of lines 193-197
OuterCatch(err) ==
    /\ solcSpinner' = "fail"
    /\ out' = out \o <<Spin("solcSpinner", "fail", CompilationFailedText),
                      Log(err.message)>>
    /\ pc' = "idle"
    /\ UNCHANGED exitCode

\* compiler.loadSolcVersion(releases[version], callback) throws
LoadSolcVersionThrow ==
    /\ pc = "loadSolc"
    /\ calls' = Append(calls, "loadSolcVersion")
    /\ failed' = "provisioning"
    /\ OuterCatch(Error("DownloadFailed", <<"cannot fetch ", ReleaseOf(version)>>))
    /\ UNCHANGED <<Inputs, ethAddress, password, version, cbSync, sourceList,
                   allSources, input, compiledData, data, submission, result,
                   uniqueIssues, resolved, client, formatted, analysisSpinner, timedOut>>

\* the download fails after loadSolcVersion returned: the callback never runs
LoadSolcVersionNoCallback ==
    /\ pc = "loadSolc"
    /\ calls' = Append(calls, "loadSolcVersion")
    /\ failed' = "provisioning"
    /\ EscapesCallback(Error("DownloadFailed", <<"cannot fetch ", ReleaseOf(version)>>))
    /\ UNCHANGED <<Inputs, ethAddress, password, version, cbSync, sourceList,
                   allSources, input, compiledData, data, submission, result,
                   uniqueIssues, resolved, client, formatted, analysisSpinner, solcSpinner, timedOut>>

\* the snapshot is delivered to the callback, from the cache (inside the
\* call) or after the download (later)
LoadSolcVersionCallback ==
    /\ pc = "loadSolc"
    /\ ReleaseOf(version) # Undefined
    /\ calls' = Append(calls, "loadSolcVersion")
    /\ cbSync' \in BOOLEAN
    /\ pc' = "callback"
    /\ UNCHANGED <<Inputs, ethAddress, password, version, sourceList,
                   allSources, input, compiledData, data, submission, result,
                   uniqueIssues, resolved, client, formatted, analysisSpinner, solcSpinner, timedOut, out,
                   exitCode, failed>>

\* solc.setupMethods(requireFromString(solcString), ...) throws
SetupMethodsThrow ==
    /\ pc = "callback"
    /\ failed' = "provisioning"
    /\ LET err == Error("IncompatibleSnapshot", <<"soljson-", ReleaseOf(version), ".js">>)
       IN IF cbSync
          THEN OuterCatch(err)
          ELSE EscapesCallback(err) /\ UNCHANGED solcSpinner
    /\ UNCHANGED <<Inputs, ethAddress, password, version, cbSync, sourceList,
                   allSources, input, compiledData, data, submission, result,
                   uniqueIssues, resolved, client, formatted, analysisSpinner, calls, timedOut>>

ResolveAllSourcesCall_NoWait ==
    /\ pc = "callback"
    /\ calls' = Append(calls, "resolveAllSources")
    /\ pc' = "compile"
    /\ UNCHANGED <<Inputs, ethAddress, password, version, cbSync, sourceList,
                   allSources, input, compiledData, data, submission, result,
                   uniqueIssues, resolved, client, formatted, analysisSpinner, solcSpinner, timedOut, out,
                   exitCode, failed>>

\* line 106
ResolveAllSourcesCall ==
    /\ pc = "callback"
    /\ calls' = Append(calls, "resolveAllSources")
    /\ pc' = "resolving"
    /\ UNCHANGED <<Inputs, ethAddress, password, version, cbSync, sourceList,
                   allSources, input, compiledData, data, submission, result,
                   uniqueIssues, resolved, client, formatted, analysisSpinner, solcSpinner, timedOut, out,
                   exitCode, failed>>


\* ------------------------------------------------------------------ import resolution

\* the sequences over S without repetition
RECURSIVE Orderings(_)
Orderings(S) ==
    IF S = {} THEN {<<>>}
    ELSE {<<>>} \cup UNION {{<<x>> \o t : t \in Orderings(S \ {x})} : x \in S}

\* what Profiler.resolveAllSources may resolve with: the entry file and some
\* of its imports, each path once, as an insertion-ordered object
ResolvedMappings ==
    LET paths == {o \in Orderings(ImportFiles \cup {EntryFile}) :
                      \E i \in 1..Len(o) : o[i] = EntryFile}
    IN {[i \in 1..Len(o) |-> [file |-> o[i], body |-> <<"source of ", o[i]>>]] : o \in paths}

\* Object.keys(resolved)
Keys(obj) == [i \in 1..Len(obj) |-> obj[i].file]

\* the .catch of lines 187-191
ImportsCatch(err) ==
    /\ solcSpinner' = "fail"
    /\ out' = out \o <<Spin("solcSpinner", "fail", <<"Resolving imports failed">>),
                      Log(ErrToString(err))>>
    /\ pc' = "idle"
    /\ UNCHANGED exitCode

ImportsRejected_Continue ==
    /\ pc = "resolving"
    /\ failed' = "imports"
    /\ solcSpinner' = "fail"
    /\ out' = Append(out, Spin("solcSpinner", "fail", <<"Resolving imports failed">>))
    /\ pc' = "compile"
    /\ UNCHANGED exitCode
    /\ UNCHANGED <<Inputs, ethAddress, password, version, cbSync, sourceList,
                   allSources, input, compiledData, data, submission, result,
                   uniqueIssues, resolved, client, formatted, analysisSpinner, calls, timedOut>>

ImportsRejected ==
    /\ pc = "resolving"
    /\ failed' = "imports"
    /\ \E missing \in ImportFiles :
         ImportsCatch(Error("ImportNotFound",
                            <<"could not find ", missing, " from ", EntryFile>>))
    /\ UNCHANGED <<Inputs, ethAddress, password, version, cbSync, sourceList,
                   allSources, input, compiledData, data, submission, result,
                   uniqueIssues, resolved, client, formatted, analysisSpinner, calls, timedOut>>

\* compiler.getSolcInput(allSources)
GetSolcInput(sources) == [language |-> "Solidity", sources |-> sources]

ImportsResolved_Reversed ==
    /\ pc = "resolving"
    /\ \E mapping \in ResolvedMappings :
         LET list == [i \in 1..Len(mapping) |-> Keys(mapping)[Len(mapping) + 1 - i]]
             all == [i \in 1..Len(list) |->
                        [file |-> list[i],
                         content |-> (CHOOSE r \in {mapping[j] : j \in 1..Len(mapping)} :
                                          r.file = list[i]).body]]
         IN /\ sourceList' = list
            /\ allSources' = all
            /\ input' = GetSolcInput(all)
            /\ resolved' = mapping
    /\ calls' = Append(calls, "getSolcInput")
    /\ pc' = "compile"
    /\ UNCHANGED <<Inputs, ethAddress, password, version, cbSync, compiledData,
                   data, submission, result, uniqueIssues, client, formatted, analysisSpinner,
                   solcSpinner, timedOut, out, exitCode, failed>>

\* lines 107-115: sourceList, allSources in sourceList order, input
ImportsResolved ==
    /\ pc = "resolving"
    /\ \E mapping \in ResolvedMappings :
         LET list == Keys(mapping)
             all == [i \in 1..Len(list) |->
                        [file |-> list[i],
                         content |-> (CHOOSE r \in {mapping[j] : j \in 1..Len(mapping)} :
                                          r.file = list[i]).body]]
         IN /\ sourceList' = list
            /\ allSources' = all
            /\ input' = GetSolcInput(all)
            /\ resolved' = mapping
    /\ calls' = Append(calls, "getSolcInput")
    /\ pc' = "compile"
    /\ UNCHANGED <<Inputs, ethAddress, password, version, cbSync, compiledData,
                   data, submission, result, uniqueIssues, client, formatted, analysisSpinner,
                   solcSpinner, timedOut, out, exitCode, failed>>

\* ------------------------------------------------------------------ compilation

Diagnostics == <<"ParserError: Expected ';' in ", EntryFile>>

CompileThrow_NoExit ==
    /\ pc = "compile"
    /\ calls' = Append(calls, "getCompiledContracts")
    /\ failed' = "compilation"
    /\ out' = Append(out, Log(Diagnostics))
    /\ pc' = "requestData"
    /\ UNCHANGED <<Inputs, ethAddress, password, version, cbSync, sourceList,
                   allSources, input, compiledData, data, submission, result,
                   uniqueIssues, resolved, client, formatted, analysisSpinner, solcSpinner, timedOut, exitCode>>

\* lines 119-125: compiler.getCompiledContracts throws
CompileThrow ==
    /\ pc = "compile"
    /\ calls' = Append(calls, "getCompiledContracts")
    /\ failed' = "compilation"
    /\ ExitWith(Error("CompilationError", Diagnostics).message, 1)
    /\ UNCHANGED <<Inputs, ethAddress, password, version, cbSync, sourceList,
                   allSources, input, compiledData, data, submission, result,
                   uniqueIssues, resolved, client, formatted, analysisSpinner, solcSpinner, timedOut>>

\* the artifacts compiler.getCompiledContracts may return
Artifacts ==
    [contractName : {"C"}, bytecode : {"0x6080", Undefined},
     sourceMap : {"0:10:0"}, sourceList : {sourceList}]

CompiledText == <<"Compiled with solc v", version, " successfully">>

\* lines 119-127
CompileReturn ==
    /\ pc = "compile"
    /\ calls' = Append(calls, "getCompiledContracts")
    /\ compiledData' \in Artifacts
    /\ solcSpinner' = "succeed"
    /\ out' = Append(out, Spin("solcSpinner", "succeed", CompiledText))
    /\ pc' = "requestData"
    /\ UNCHANGED <<Inputs, ethAddress, password, version, cbSync, sourceList,
                   allSources, input, data, submission, result, uniqueIssues, resolved, client, formatted,
                   analysisSpinner, timedOut, exitCode, failed>>


\* ------------------------------------------------------------------ request building and submission

\* client.getRequestData fails on an artifact without bytecode or source map
ArtifactComplete(artifact) ==
    artifact.bytecode # Undefined /\ artifact.sourceMap # Undefined

\* client.getRequestData(compiledData, sourceList, solidityFilePath, args)
GetRequestData(artifact, list, a) ==
    [artifact |-> artifact, sourceList |-> list, mode |-> a.mode,
     toolName |-> "sabre", cachePolicy |-> "allow"]

QuickInitialDelay == 20 * 1000
QuickTimeout == 180 * 1000
FullInitialDelay == 300 * 1000
FullTimeout == 2400 * 1000

InitialDelay(mode) == IF mode = "quick" THEN QuickInitialDelay ELSE FullInitialDelay
Timeout_QuickOnly(mode) == QuickTimeout

Timeout(mode) == IF mode = "quick" THEN QuickTimeout ELSE FullTimeout

\* what args.debug adds to the output
DebugLog(on, title, body) ==
    IF on THEN <<Log(<<"-------------------">>), Log(<<title>>), Log(<<"util.inspect", body>>)>>
    ELSE <<>>

\* lines 129-134 throw inside the .then of resolveAllSources: the .catch of
\* lines 187-191 handles it
GetRequestDataThrow ==
    /\ pc = "requestData"
    /\ ~ArtifactComplete(compiledData)
    /\ calls' = Append(calls, "getRequestData")
    /\ failed' = "request"
    /\ ImportsCatch(Error("IncompleteArtifact", <<"no bytecode for ", compiledData.contractName>>))
    /\ UNCHANGED <<Inputs, ethAddress, password, version, cbSync, sourceList,
                   allSources, input, compiledData, data, submission, result,
                   uniqueIssues, resolved, client, formatted, analysisSpinner, timedOut>>

SubmitAnalysis_NoDelay ==
    /\ pc = "requestData"
    /\ ArtifactComplete(compiledData)
    /\ calls' = calls \o <<"getRequestData", "getMythXReport">>
    /\ LET request == GetRequestData(compiledData, sourceList, args)
       IN /\ data' = request
          /\ out' = out \o DebugLog(args.debug, "MythX Request Body:", "data")
          /\ submission' = [apiUrl |-> Undefined, ethAddress |-> ethAddress,
                            password |-> password, data |-> request,
                            initialDelay |-> 0,
                            timeout |-> Timeout(args.mode)]
    /\ analysisSpinner' = "spinning"
    /\ client' = [ClientIdle EXCEPT !.state = "submitting"]
    /\ pc' = "analysing"
    /\ UNCHANGED <<Inputs, ethAddress, password, version, cbSync, sourceList,
                   allSources, input, compiledData, result, uniqueIssues, resolved, formatted,
                   solcSpinner, timedOut, exitCode, failed>>

\* lines 129-155
SubmitAnalysis ==
    /\ pc = "requestData"
    /\ ArtifactComplete(compiledData)
    /\ calls' = calls \o <<"getRequestData", "getMythXReport">>
    /\ LET request == GetRequestData(compiledData, sourceList, args)
       IN /\ data' = request
          /\ out' = out \o DebugLog(args.debug, "MythX Request Body:", "data")
          /\ submission' = [apiUrl |-> Undefined, ethAddress |-> ethAddress,
                            password |-> password, data |-> request,
                            initialDelay |-> InitialDelay(args.mode),
                            timeout |-> Timeout(args.mode)]
    /\ analysisSpinner' = "spinning"
    /\ client' = [ClientIdle EXCEPT !.state = "submitting"]
    /\ pc' = "analysing"
    /\ UNCHANGED <<Inputs, ethAddress, password, version, cbSync, sourceList,
                   allSources, input, compiledData, result, uniqueIssues, resolved, formatted,
                   solcSpinner, timedOut, exitCode, failed>>

\* ------------------------------------------------------------------ analysis outcome

\* the .catch of lines 181-185
AnalysisCatch(err) ==
    /\ analysisSpinner' = "fail"
    /\ out' = out \o <<Spin("analysisSpinner", "fail", <<"Analysis failed">>),
                      Log(ErrToString(err))>>
    /\ pc' = "idle"
    /\ UNCHANGED exitCode

\* ------------------------------------------------------------------ the analysis client

\* time between two status checks
PollInterval == 120 * 1000
\* time before a status check is retried after a network fault
RetryDelay == 60 * 1000

\* the client-side deadline: timeout after initialDelay, since submission
Deadline == submission.initialDelay + submission.timeout

\* the request was accepted: the first status check is initialDelay away
AwaitInitialDelay ==
    /\ pc = "analysing"
    /\ client.state = "submitting"
    /\ client' = [client EXCEPT !.state = "polling",
                                !.elapsed = submission.initialDelay]
    /\ UNCHANGED <<Inputs, ethAddress, password, version, cbSync, sourceList,
                   allSources, input, compiledData, data, submission, result,
                   uniqueIssues, resolved, formatted, solcSpinner, analysisSpinner, out,
                   exitCode, calls, failed, timedOut, pc>>

\* a status check before the deadline finds the job queued or running
PollPending ==
    /\ pc = "analysing"
    /\ client.state = "polling"
    /\ client.elapsed <= Deadline
    /\ client' = [client EXCEPT !.elapsed = @ + PollInterval, !.checked = TRUE]
    /\ UNCHANGED <<Inputs, ethAddress, password, version, cbSync, sourceList,
                   allSources, input, compiledData, data, submission, result,
                   uniqueIssues, resolved, formatted, solcSpinner, analysisSpinner, out,
                   exitCode, calls, failed, timedOut, pc>>

\* a status check before the deadline hits a network fault and is retried
PollRetry ==
    /\ pc = "analysing"
    /\ client.state = "polling"
    /\ client.elapsed <= Deadline
    /\ client.retries < MaxRetries
    /\ client' = [client EXCEPT !.elapsed = @ + RetryDelay, !.checked = TRUE,
                                !.retries = @ + 1]
    /\ UNCHANGED <<Inputs, ethAddress, password, version, cbSync, sourceList,
                   allSources, input, compiledData, data, submission, result,
                   uniqueIssues, resolved, formatted, solcSpinner, analysisSpinner, out,
                   exitCode, calls, failed, timedOut, pc>>

AnalysisErrors == {"SubmissionRejected", "TransientNetworkError", "Timeout"}

\* when the client ends with the outcome: a rejection at submission, a
\* status check before the deadline that finds the job done or has no retry
\* left, or the first timer past the deadline
MaySettle(outcome) ==
    CASE outcome = "SubmissionRejected" -> client.state = "submitting"
      [] outcome = "TransientNetworkError" ->
            /\ client.state = "polling"
            /\ client.elapsed <= Deadline
            /\ client.retries = MaxRetries
      [] outcome = "succeeded" ->
            client.state = "polling" /\ client.elapsed <= Deadline
      [] OTHER -> client.state = "polling" /\ client.elapsed > Deadline

\* the client stops and settles the promise of getMythXReport
ClientSettles ==
    /\ pc = "analysing"
    /\ \E outcome \in AnalysisErrors \cup {"succeeded", "timedOut"} :
         /\ MaySettle(outcome)
         /\ client' = [ClientIdle EXCEPT !.state = "settled", !.outcome = outcome]
    /\ UNCHANGED <<Inputs, ethAddress, password, version, cbSync, sourceList,
                   allSources, input, compiledData, data, submission, result,
                   uniqueIssues, resolved, formatted, solcSpinner, analysisSpinner, out,
                   exitCode, calls, failed, timedOut, pc>>

AnalysisRejected ==
    /\ pc = "analysing"
    /\ \E name \in AnalysisErrors :
         /\ client.state = "settled" /\ client.outcome = name
         /\ timedOut' = (name = "Timeout")
         /\ AnalysisCatch(Error(name, <<"analysis of ", compiledData.contractName>>))
    /\ failed' = "analysis"
    /\ client' = ClientIdle
    /\ UNCHANGED <<Inputs, ethAddress, password, version, cbSync, sourceList,
                   allSources, input, compiledData, data, submission, result,
                   uniqueIssues, resolved, formatted, solcSpinner, calls>>

RuleIds == {"SWC-101", "SWC-107"}
RawIssues == [ruleId : RuleIds, locationRef : 0..1]

RECURSIVE SeqsUpTo(_, _)
SeqsUpTo(S, n) ==
    IF n = 0 THEN {<<>>}
    ELSE {<<>>} \cup {<<x>> \o t : x \in S, t \in SeqsUpTo(S, n - 1)}

\* data with data.sources = { ...input.sources }
WithSources_Rebuilt(request, sources) == [sources |-> sources]

WithSources(request, sources) ==
    [f \in DOMAIN request \cup {"sources"} |->
        IF f = "sources" THEN sources ELSE request[f]]

\* lines 156-168
AnalysisResolved ==
    /\ pc = "analysing"
    /\ \E status \in {"succeeded", "timedOut"}, issues \in SeqsUpTo(RawIssues, MaxIssues) :
         /\ client.state = "settled" /\ client.outcome = status
         /\ result' = [status |-> status, issues |-> issues]
         /\ timedOut' = (status = "timedOut")
         /\ out' = out \o DebugLog(args.debug, "MythX Response Body:", "result")
    /\ analysisSpinner' = "stop"
    /\ data' = WithSources(data, input.sources)
    /\ client' = ClientIdle
    /\ pc' = "report"
    /\ UNCHANGED <<Inputs, ethAddress, password, version, cbSync, sourceList,
                   allSources, input, compiledData, submission, uniqueIssues, resolved, formatted,
                   solcSpinner, calls, exitCode, failed>>


\* ------------------------------------------------------------------ report

\* the location a raw issue resolves to: the first source of the request, or
\* the sentinel (entry file, 0, 0) when the reference resolves to nothing
Canonical(request, issue) ==
    IF issue.locationRef = 0
    THEN [ruleId |-> issue.ruleId, filePath |-> EntryFile, line |-> 0, column |-> 0]
    ELSE [ruleId |-> issue.ruleId, filePath |-> request.sourceList[1],
          line |-> issue.locationRef, column |-> 1]

IssueKey(c) == <<c.ruleId, c.filePath, c.line, c.column>>

\* the first occurrence of each key, in arrival order
RECURSIVE Dedup(_, _)
Dedup(issues, seen) ==
    IF issues = <<>> THEN <<>>
    ELSE IF IssueKey(Head(issues)) \in seen
         THEN Dedup(Tail(issues), seen)
         ELSE <<Head(issues)>> \o Dedup(Tail(issues), seen \cup {IssueKey(Head(issues))})

\* the ascending order of the file paths
PathRank(path) ==
    CASE path = "A.sol" -> 1 [] path = "B.sol" -> 2 [] OTHER -> 3

\* c sorts strictly before d: by filePath, then line, then column
Before(c, d) ==
    \/ PathRank(c.filePath) < PathRank(d.filePath)
    \/ /\ c.filePath = d.filePath
       /\ \/ c.line < d.line
          \/ c.line = d.line /\ c.column < d.column

\* stable insertion: c goes after every element that does not sort after it
RECURSIVE InsertIssue(_, _)
InsertIssue(c, sorted) ==
    IF sorted = <<>> THEN <<c>>
    ELSE IF Before(c, Head(sorted))
         THEN <<c>> \o sorted
         ELSE <<Head(sorted)>> \o InsertIssue(c, Tail(sorted))

RECURSIVE SortIssues(_)
SortIssues(issues) ==
    IF issues = <<>> THEN <<>>
    ELSE InsertIssue(issues[Len(issues)], SortIssues(SubSeq(issues, 1, Len(issues) - 1)))

\* report.formatIssues(data, issues)
FormatIssues(request, issues) ==
    SortIssues(Dedup([i \in 1..Len(issues) |-> Canonical(request, issues[i])], {}))

SuccessText ==
    <<"No errors/warnings found in ", args.positional[1], " for contract: ",
      compiledData.contractName>>

ReportEmpty_Formats ==
    /\ pc = "report"
    /\ FormatIssues(data, result.issues) = <<>>
    /\ uniqueIssues' = <<>>
    /\ formatted' = Append(formatted, [format |-> args.format, issues |-> <<>>])
    /\ calls' = calls \o <<"formatIssues", "formatter">>
    /\ out' = Append(out, Log(<<"report in ", args.format>>))
    /\ pc' = "idle"
    /\ UNCHANGED <<Inputs, ethAddress, password, version, cbSync, sourceList,
                   allSources, resolved, input, compiledData, data, submission, result,
                   client, solcSpinner, analysisSpinner, timedOut, exitCode,
                   failed>>

\* lines 170-174
ReportEmpty ==
    /\ pc = "report"
    /\ FormatIssues(data, result.issues) = <<>>
    /\ uniqueIssues' = <<>>
    /\ calls' = Append(calls, "formatIssues")
    /\ out' = Append(out, Log(SuccessText))
    /\ pc' = "idle"
    /\ UNCHANGED <<Inputs, ethAddress, password, version, cbSync, sourceList,
                   allSources, resolved, input, compiledData, data, submission, result,
                   formatted, client, solcSpinner, analysisSpinner, timedOut,
                   exitCode, failed>>

ReportIssues_Raw ==
    /\ pc = "report"
    /\ FormatIssues(data, result.issues) # <<>>
    /\ uniqueIssues' = FormatIssues(data, result.issues)
    /\ formatted' = Append(formatted,
                           [format |-> args.format,
                            issues |-> [i \in 1..Len(result.issues) |->
                                           Canonical(data, result.issues[i])]])
    /\ calls' = calls \o <<"formatIssues", "formatter">>
    /\ out' = Append(out, Log(<<"report in ", args.format>>))
    /\ pc' = "idle"
    /\ UNCHANGED <<Inputs, ethAddress, password, version, cbSync, sourceList,
                   allSources, resolved, input, compiledData, data, submission, result,
                   client, solcSpinner, analysisSpinner, timedOut, exitCode,
                   failed>>

\* lines 170-179
ReportIssues ==
    /\ pc = "report"
    /\ FormatIssues(data, result.issues) # <<>>
    /\ uniqueIssues' = FormatIssues(data, result.issues)
    /\ formatted' = Append(formatted, [format |-> args.format,
                                       issues |-> FormatIssues(data, result.issues)])
    /\ calls' = calls \o <<"formatIssues", "formatter">>
    /\ out' = Append(out, Log(<<"report in ", args.format>>))
    /\ pc' = "idle"
    /\ UNCHANGED <<Inputs, ethAddress, password, version, cbSync, sourceList,
                   allSources, resolved, input, compiledData, data, submission, result,
                   client, solcSpinner, analysisSpinner, timedOut, exitCode,
                   failed>>

\* report.formatIssues or the formatter throws inside the .then of
\* getMythXReport: the .catch of lines 181-185 handles it
ReportThrow ==
    /\ pc = "report"
    /\ calls' = Append(calls, "formatIssues")
    /\ failed' = "report"
    /\ AnalysisCatch(Error("TypeError", <<"cannot format issues">>))
    /\ UNCHANGED <<Inputs, ethAddress, password, version, cbSync, sourceList,
                   allSources, input, compiledData, data, submission, result,
                   uniqueIssues, resolved, client, formatted, solcSpinner, timedOut>>

\* ------------------------------------------------------------------ process end

\* nothing is pending and no handler called process.exit: node exits with
\* process.exitCode, which nothing has set
EventLoopDrained ==
    /\ pc = "idle"
    /\ exitCode' = 0
    /\ pc' = "exited"
    /\ UNCHANGED <<Inputs, Pipeline, ethAddress, password, out, failed>>

Next ==
    \/ ParseArgs
    \/ PrintVersion
    \/ PrintHelp
    \/ RejectMode
    \/ RejectFormat
    \/ AcceptArgs
    \/ ReadFileFail
    \/ ReadFileOk
    \/ GetSolidityVersionThrow
    \/ GetSolidityVersionReturn
    \/ LoadSolcVersionThrow
    \/ LoadSolcVersionNoCallback
    \/ LoadSolcVersionCallback
    \/ SetupMethodsThrow
    \/ ResolveAllSourcesCall
    \/ ImportsRejected
    \/ ImportsResolved
    \/ CompileThrow
    \/ CompileReturn
    \/ GetRequestDataThrow
    \/ SubmitAnalysis
    \/ AwaitInitialDelay
    \/ PollPending
    \/ PollRetry
    \/ ClientSettles
    \/ AnalysisRejected
    \/ AnalysisResolved
    \/ ReportEmpty
    \/ ReportIssues
    \/ ReportThrow
    \/ EventLoopDrained

Spec == Init /\ [][Next]_vars


\* ------------------------------------------------------------------ properties

Called(stage) == \E i \in 1..Len(calls) : calls[i] = stage

Shown(event) == \E i \in 1..Len(out) : out[i] = event

ShownText(name) ==
    \E i \in 1..Len(out) : Len(out[i].text) > 0 /\ out[i].text[1] = name

Terminated == pc = "exited"

ImportsLabel == Spin("solcSpinner", "fail", <<"Resolving imports failed">>)
AnalysisLabel == Spin("analysisSpinner", "fail", <<"Analysis failed">>)
CompilationLabel == Spin("solcSpinner", "fail", CompilationFailedText)

ShownSuccess == ShownText("No errors/warnings found in ")
ShownReport == ShownText("report in ")

\* C1: when compiler.getCompiledContracts throws, the diagnostic text is
\* printed, the process exits with code 1, and neither client.getRequestData
\* nor client.getMythXReport is ever called.
CompilationFailureStops ==
    failed = "compilation" =>
        /\ Shown(Log(Diagnostics))
        /\ Terminated /\ exitCode = 1
        /\ ~Called("getRequestData")
        /\ ~Called("getMythXReport")

CompilationFailureSeen ==
    /\ failed = "compilation"
    /\ Called("getCompiledContracts")
    /\ Terminated /\ exitCode = 1

\* C2: when the promise returned by client.getMythXReport rejects, the
\* process ends with a nonzero exit code.
AnalysisRejectionExitsNonzero ==
    (failed = "analysis" /\ Terminated) => exitCode # 0

\* C3: when Profiler.resolveAllSources rejects, the process exits with a
\* nonzero exit code, an ImportNotFound message naming the missing import is
\* printed, and no compilation or analysis request follows.
ImportFailureExitsNonzero ==
    failed = "imports" =>
        /\ \E missing \in ImportFiles :
             Shown(Log(<<"ImportNotFound", ": ", "could not find ", missing,
                         " from ", EntryFile>>))
        /\ ~Called("getCompiledContracts")
        /\ ~Called("getMythXReport")
        /\ Terminated => exitCode # 0

\* C4: with a file argument and neither --version nor --help, a --mode
\* outside {quick, full}, a --format outside the six formats or an unreadable
\* input file ends the process with code -1 before any pipeline stage starts;
\* omitted --mode and --format default to quick and text and are accepted.
InvalidInvocation ==
    /\ Len(argv.positional) > 0 /\ ~argv.version /\ ~argv.help
    /\ \/ argv.mode \notin {Omitted, "quick", "full"}
       \/ argv.format \notin {Omitted, "text", "stylish", "compact", "table", "html", "json"}
       \/ ~fileReadable

InvalidInvocationExits ==
    /\ InvalidInvocation =>
          /\ calls = <<>>
          /\ solcSpinner = "none"
          /\ pc \in {"start", "flags", "readFile", "exited"}
          /\ Terminated => exitCode = -1
    /\ (pc # "start" /\ argv.mode = Omitted) => args.mode = "quick"
    /\ (pc # "start" /\ argv.format = Omitted) => args.format = "text"
    /\ (argv.mode = Omitted /\ argv.format = Omitted /\ fileReadable
            /\ Len(argv.positional) > 0 /\ ~argv.version /\ ~argv.help
            /\ pc \notin {"start", "flags"}) =>
          /\ failed # "arguments"
          /\ Terminated => exitCode # -1

InvalidInvocationSeen ==
    /\ InvalidInvocation
    /\ argv.format = "xml"
    /\ argv.mode = Omitted
    /\ Terminated /\ exitCode = -1

\* C5: once a stage has failed no later stage is invoked, and the success
\* message or a formatted report is shown only after client.getMythXReport
\* resolved with a result.
FatalErrorsTerminate ==
    [][/\ failed # "none" => calls' = calls
       /\ (ShownSuccess' \/ ShownReport') => result' # NoData]_vars

FailureEndedRun ==
    /\ failed = "request"
    /\ Terminated
    /\ ~Called("getMythXReport")
    /\ ~(ShownSuccess \/ ShownReport)

\* C6: the failure label names the stage that failed: 'Resolving imports
\* failed' only for import resolution, 'Analysis failed' only for the analysis
\* submission, 'Compilation with solc ... failed' only for provisioning or
\* compilation; a failure of request building or of issue formatting is not
\* shown under another stage's label.
FailureLabelNamesStage ==
    /\ Shown(ImportsLabel) => failed = "imports"
    /\ Shown(AnalysisLabel) => failed = "analysis"
    /\ Shown(CompilationLabel) => failed \in {"provisioning", "compilation"}


Count(stage) == Cardinality({i \in 1..Len(calls) : calls[i] = stage})

\* C7 (as stated): from the moment data is passed to client.getMythXReport
\* until the end of the run, no field of data is added, removed or changed.
RequestNeverMutated ==
    submission # NoData => data = submission.data

\* C7 (amended): the request is built once; it is unchanged while the analysis
\* is pending; once client.getMythXReport resolved, data.sources holds
\* input.sources and every other field is as it was submitted.
RequestKeptExceptSources ==
    /\ Count("getRequestData") <= 1
    /\ submission # NoData =>
          /\ \A f \in (DOMAIN data \cup DOMAIN submission.data) \ {"sources"} :
                /\ f \in DOMAIN data
                /\ f \in DOMAIN submission.data
                /\ data[f] = submission.data[f]
          /\ pc = "analysing" => data = submission.data
          /\ (failed = "analysis" /\ calls[Len(calls)] = "getMythXReport") =>
                data = submission.data
          /\ result # NoData =>
                "sources" \in DOMAIN data /\ data.sources = input.sources

RequestGotSources ==
    /\ submission # NoData
    /\ result # NoData
    /\ data # submission.data
    /\ data.sources = allSources
    /\ Terminated

\* C8: when client.getMythXReport ends because the deadline elapsed, what is
\* shown is not what an analysis failure shows, and it tells the user to
\* retry or check later.
TellsToRetry ==
    \E i \in 1..Len(out) : \E j \in 1..Len(out[i].text) :
        out[i].text[j] \in {"retry", "check later"}

TimeoutReportedDistinctly ==
    (timedOut /\ pc \in {"idle", "exited"}) =>
        /\ ~Shown(AnalysisLabel)
        /\ TellsToRetry

\* C9: when releases[version] is undefined the pipeline fails with
\* NoMatchingRelease and compiler.loadSolcVersion is not called.
UnknownReleaseStopsBeforeLoad ==
    (version # Undefined /\ ReleaseOf(version) = Undefined) =>
        /\ ~Called("loadSolcVersion")
        /\ pc \notin {"getVersion", "loadSolc"} => ShownText("NoMatchingRelease")

\* C10: a source without a version pragma fails version resolution with
\* NoVersionDeclared, and compiler.loadSolcVersion, client.getMythXReport and
\* compiler.getCompiledContracts are never called in that run.
NoPragmaNoCalls ==
    pragma = NoPragma =>
        /\ ~Called("loadSolcVersion")
        /\ ~Called("getMythXReport")
        /\ ~Called("getCompiledContracts")
        /\ solcSpinner = "none"
        /\ Called("getSolidityVersion") =>
              /\ failed = "version"
              /\ ShownText("NoVersionDeclared")
              /\ Terminated

NoPragmaSeen ==
    /\ pragma = NoPragma
    /\ Called("getSolidityVersion")
    /\ failed = "version"
    /\ Terminated


\* C11: after a successful analysis with an empty normalized issue list the
\* success message naming the input file and the contract is printed, no
\* formatter is invoked and the process exits 0; with a non-empty list the
\* formatter selected by --format is applied exactly once to that list and
\* the success message is not printed; exactly one of the two outputs appears.
ReportDone == result # NoData /\ failed = "none" /\ pc \in {"idle", "exited"}

OutputCount(first) ==
    Cardinality({i \in 1..Len(out) : out[i].text[1] = first})

OneOutputOnSuccess ==
    ReportDone =>
        LET unique == FormatIssues(data, result.issues)
        IN /\ uniqueIssues = unique
           /\ unique = <<>> =>
                 /\ Shown(Log(<<"No errors/warnings found in ", argv.positional[1],
                                " for contract: ", compiledData.contractName>>))
                 /\ formatted = <<>>
                 /\ ~Called("formatter")
                 /\ Terminated => exitCode = 0
           /\ unique # <<>> =>
                 /\ formatted = <<[format |-> args.format, issues |-> unique]>>
                 /\ Count("formatter") = 1
                 /\ Shown(Log(<<"report in ", args.format>>))
                 /\ ~ShownSuccess
           /\ OutputCount("No errors/warnings found in ") + OutputCount("report in ") = 1

SuccessMessageSeen ==
    /\ ReportDone
    /\ result.status = "succeeded"
    /\ uniqueIssues = <<>>
    /\ ShownSuccess
    /\ Terminated /\ exitCode = 0


\* C12: the issue list handed to the formatter has no two elements with the
\* same (ruleId, filePath, line, column); two raw issues with the same ruleId
\* and resolved location give exactly one formatted entry; and normalizing a
\* response with an exact duplicate gives the same canonical set as
\* normalizing it with the duplicate removed.
NoDuplicateKeys(issues) ==
    \A i, j \in 1..Len(issues) : IssueKey(issues[i]) = IssueKey(issues[j]) => i = j

Elements(seq) == {seq[i] : i \in 1..Len(seq)}

Without(seq, j) == SubSeq(seq, 1, j - 1) \o SubSeq(seq, j + 1, Len(seq))

CanonicalIssuesUnique ==
    formatted # <<>> =>
        LET raw == result.issues
            given == formatted[1].issues
        IN /\ Len(formatted) = 1
           /\ NoDuplicateKeys(given)
           /\ \A i \in 1..Len(raw) :
                 \E k \in 1..Len(given) :
                     IssueKey(given[k]) = IssueKey(Canonical(data, raw[i]))
           /\ \A i, j \in 1..Len(raw) :
                 (i < j /\ raw[i] = raw[j]) =>
                     Elements(FormatIssues(data, Without(raw, j))) = Elements(given)
           /\ (Len(raw) = 2 /\ IssueKey(Canonical(data, raw[1]))
                                 = IssueKey(Canonical(data, raw[2]))) =>
                 Len(given) = 1

DuplicateCollapsed ==
    /\ formatted # <<>>
    /\ Len(result.issues) = 2
    /\ result.issues[1] = result.issues[2]
    /\ result.issues[1].locationRef = 1
    /\ Len(formatted[1].issues) = 1
    /\ Terminated


\* C13: with the initialDelay and timeout of the mode, no status check
\* happens earlier than initialDelay after submission; the time since
\* submission never exceeds initialDelay + timeout + the retry overhead; and
\* once timeout has passed after initialDelay without a terminal status the
\* client yields timedOut and checks no more.
RetryOverhead == PollInterval + MaxRetries * RetryDelay

Budget == InitialDelay(args.mode) + Timeout(args.mode) + RetryOverhead

PollingWithinBudget ==
    [][/\ client'.state = "polling" =>
             /\ client'.elapsed >= InitialDelay(args.mode)
             /\ client'.elapsed <= Budget
       /\ (client'.checked /\ ~client.checked) =>
             client.elapsed >= InitialDelay(args.mode)
       /\ (client.state = "polling"
             /\ client.elapsed > InitialDelay(args.mode) + Timeout(args.mode)) =>
             /\ client'.state = "settled"
             /\ client'.outcome \in {"Timeout", "timedOut"}
       /\ (client'.state = "settled" /\ client'.outcome \in {"Timeout", "timedOut"}) =>
             /\ client.state \in {"polling", "settled"}
             /\ client.state = "polling" =>
                   client.elapsed > InitialDelay(args.mode) + Timeout(args.mode)]_vars

DeadlinePassed ==
    /\ pc = "analysing"
    /\ client.state = "polling"
    /\ client.checked
    /\ client.retries = MaxRetries
    /\ client.elapsed > InitialDelay(args.mode) + Timeout(args.mode)


\* C14: the delays handed to getMythXReport are 20 s and 180 s in quick mode
\* and 300 s and 2400 s in the other accepted mode, full; the initial delay is
\* below the timeout in both, the quick values are below the full ones, and no
\* other pair is ever handed over.
ModeSelectsDelays ==
    submission # NoData =>
        /\ args.mode \in {"quick", "full"}
        /\ args.mode = "quick" =>
              submission.initialDelay = 20 * 1000 /\ submission.timeout = 180 * 1000
        /\ args.mode = "full" =>
              submission.initialDelay = 300 * 1000 /\ submission.timeout = 2400 * 1000
        /\ submission.initialDelay < submission.timeout
        /\ InitialDelay("quick") < InitialDelay("full")
        /\ Timeout("quick") < Timeout("full")

FullModeSubmitted ==
    /\ submission # NoData
    /\ args.mode = "full"
    /\ Called("getMythXReport")


\* C15: the source list handed to the request builder is the key order of the
\* resolved mapping; allSources, from which the compiler input is built, is
\* populated in that order; no path occurs twice; and the order is the same
\* in the request from its construction up to report.formatIssues.
SourceOrderKept ==
    Called("getSolcInput") =>
        /\ sourceList = Keys(resolved)
        /\ [i \in 1..Len(allSources) |-> allSources[i].file] = sourceList
        /\ input.sources = allSources
        /\ \A i, j \in 1..Len(sourceList) : sourceList[i] = sourceList[j] => i = j
        /\ data # NoData =>
              /\ data.sourceList = Keys(resolved)
              /\ submission.data.sourceList = Keys(resolved)
              /\ "sources" \in DOMAIN data => data.sources = allSources

UnsortedSourcesReported ==
    /\ ReportDone
    /\ Len(sourceList) = 3
    /\ sourceList[1] = "B.sol"
    /\ sourceList[3] = "A.sol"
    /\ data.sourceList = sourceList


\* C16: the identity handed to the analysis service is the pair from the
\* environment when MYTHX_ETH_ADDRESS and MYTHX_PASSWORD are both set and
\* non-empty, and otherwise the whole trial pair; the two are never mixed.
CredentialsWholePair ==
    LET fromEnv == <<env.MYTHX_ETH_ADDRESS, env.MYTHX_PASSWORD>>
        trial == <<TrialAddress, TrialPassword>>
        both == /\ env.MYTHX_ETH_ADDRESS \notin {Undefined, ""}
                /\ env.MYTHX_PASSWORD \notin {Undefined, ""}
    IN /\ pc \notin {"start", "flags", "exited"} =>
             <<ethAddress, password>> = IF both THEN fromEnv ELSE trial
       /\ submission # NoData =>
             <<submission.ethAddress, submission.password>> =
                 IF both THEN fromEnv ELSE trial

HalfSetEnvironmentSubmitted ==
    /\ Called("getMythXReport")
    /\ env.MYTHX_ETH_ADDRESS = "user"
    /\ env.MYTHX_PASSWORD \in {Undefined, ""}
    /\ submission.ethAddress = TrialAddress
    /\ submission.password = TrialPassword


\* C17: the stages are invoked in the order of the pipeline, each at most
\* once, and each only when the stage before it has delivered its result.
Stages ==
    <<"getSolidityVersion", "loadSolcVersion", "resolveAllSources", "getSolcInput",
      "getCompiledContracts", "getRequestData", "getMythXReport", "formatIssues",
      "formatter">>

StagesInOrder ==
    /\ Len(calls) <= Len(Stages)
    /\ calls = SubSeq(Stages, 1, Len(calls))
    /\ \A stage \in {Stages[i] : i \in 1..Len(Stages)} : Count(stage) <= 1
    /\ Called("loadSolcVersion") => version # Undefined
    /\ Called("getSolcInput") => resolved # <<>>
    /\ Called("getCompiledContracts") => input # NoData
    /\ Called("getRequestData") => compiledData # NoData
    /\ Called("getMythXReport") => data # NoData /\ submission # NoData
    /\ Called("formatIssues") => result # NoData

AllStagesRan == calls = Stages /\ Terminated


\* C18: a run that got past argument validation ends with exactly one of the
\* terminal outcomes: input-file error, compilation error, 'Compilation with
\* solc ... failed', 'Resolving imports failed', 'Analysis failed', the
\* success message or a formatted report; no run shows two of them, and after
\* 'Compiled with solc ... successfully' neither a compilation nor an
\* import-resolution failure is shown.
IsOutcome(event) ==
    \/ event = Log(<<"Error opening input file ", "ENOENT">>)
    \/ event = Log(Diagnostics)
    \/ event \in {CompilationLabel, ImportsLabel, AnalysisLabel}
    \/ event.text[1] \in {"No errors/warnings found in ", "report in "}

OutcomeCount == Cardinality({i \in 1..Len(out) : IsOutcome(out[i])})

PastValidation ==
    /\ args # NoData
    /\ ~args.version
    /\ ~args.help
    /\ Len(args.positional) > 0
    /\ ModeAccepted(args.mode)
    /\ FormatAccepted(args.format)

OneTerminalOutcome ==
    /\ OutcomeCount <= 1
    /\ (Terminated /\ PastValidation) => OutcomeCount = 1
    /\ Shown(Spin("solcSpinner", "succeed", CompiledText)) =>
          ~Shown(CompilationLabel) /\ ~Shown(ImportsLabel)


\* C19: the run never ends up waiting with nothing left that could complete
\* or fail, and when it has ended every spinner that was started has been
\* stopped, succeeded or failed; in particular a failed snapshot download does
\* not leave the run waiting with the solc spinner active.
SpinnersSettledAtEnd ==
    /\ pc # "stalled"
    /\ Terminated => solcSpinner # "spinning" /\ analysisSpinner # "spinning"

====
